---- MODULE Spec2Model ----
(***************************************************************************)
(* QuakeWatch serial data parser (src/main.py): the frame decoder          *)
(* parse_serial_data, the polling callback update_plot with its bounded    *)
(* deques, and print_statistics / the shutdown path of main.               *)
(*                                                                         *)
(* Numbers that come off the wire (the u64 timestamp, the f32 fields) do   *)
(* not fit TLC's integers, so a decoded number is the tuple of its         *)
(* base-256 digits, most significant first: struct.unpack's little-endian  *)
(* decoding is the reversal of the bytes it is given.  An f32 is           *)
(* identified with its 32-bit pattern.                                     *)
(***************************************************************************)
EXTENDS Integers, Sequences, FiniteSets, TLC

VARIABLES
    wire,                \* bytes sent by the device and not yet read by ser.read
    packet_count,        \* src/main.py:31
    x_data, y_data, z_data, time_data, timestamp_data,
    intensity_history, a_history, intensity_time, intensity_timestamp,
    first_timestamp,     \* src/main.py:33
    now,                 \* time.time() - start_time, in clock ticks
    i,                   \* position of update_plot's loop "for _ in range(10)"
    phase,               \* where main is: "running" (plt.show), "raised", "aborted",
                         \* "finally", "reported", "crashed", "closed"
    result,              \* what the last call of parse_serial_data returned
    printed,             \* the diagnostics line 69 has printed (the error totals)
    report,              \* what print_statistics printed
    \* history of the run, read by the properties only
    fed,                 \* the pieces the line carries when the session starts
    sent,                \* number of writes the device has made since
    outcome,             \* how the last decode call ended
    calls,               \* number of decode calls made so far
    noData,              \* number of decode calls that found no tag byte
    decoded,             \* the frames the decode calls have returned, in order
    decodedAt,           \* the clock reading at which each was pushed
    shortReads,          \* number of decode calls that ended in a short read
    ioFailures,          \* number of decode calls in which ser.read raised
    diagAt,              \* value of ioFailures at each diagnostic printed
    \* the environment
    broken               \* the device is gone: every read raises from now on

vars == <<wire, packet_count, x_data, y_data, z_data, time_data, timestamp_data,
          intensity_history, a_history, intensity_time, intensity_timestamp,
          first_timestamp, now, i, phase, result, printed, report,
          fed, sent, outcome, calls, noData, decoded, decodedAt, shortReads,
          ioFailures, diagAt, broken>>

sensorBufs == <<x_data, y_data, z_data, time_data, timestamp_data>>
intensityBufs == <<intensity_history, a_history, intensity_time, intensity_timestamp>>
buffers == <<sensorBufs, intensityBufs>>

----------------------------------------------------------------------------
(* Program constants *)

MAX_SAMPLES == 500
INTENSITY_SAMPLES == 100
TAG_SENSOR == 83
TAG_INTENSITY == 73
SENSOR_BODY == 20
INTENSITY_BODY == 16
READS_PER_POLL == 10
DIAG_EVERY == 100

None == <<>>

Min(a, b) == IF a < b THEN a ELSE b

----------------------------------------------------------------------------
(* Numbers as base-256 digits, most significant first *)

Digits(v, n) == [j \in 1..n |-> IF n - j < 4 THEN (v \div (256 ^ (n - j))) % 256 ELSE 0]

Reverse(s) == [j \in 1..Len(s) |-> s[Len(s) + 1 - j]]

IsZero(d) == \A j \in 1..Len(d) : d[j] = 0

RECURSIVE Less(_, _)
Less(a, b) ==
    IF a = <<>> THEN FALSE
    ELSE IF Head(a) # Head(b) THEN Head(a) < Head(b)
    ELSE Less(Tail(a), Tail(b))

\* a - b for a >= b, digit by digit from the least significant one
RECURSIVE SubDigits(_, _, _)
SubDigits(a, b, borrow) ==
    IF a = <<>> THEN <<>>
    ELSE LET n == Len(a)
             d == a[n] - b[n] - borrow
         IN  Append(SubDigits(SubSeq(a, 1, n - 1), SubSeq(b, 1, n - 1),
                              IF d < 0 THEN 1 ELSE 0),
                    IF d < 0 THEN d + 256 ELSE d)

\* Python's integer a - b
Minus(a, b) ==
    IF Less(a, b) THEN [neg |-> TRUE, mag |-> SubDigits(b, a, 0)]
    ELSE [neg |-> FALSE, mag |-> SubDigits(a, b, 0)]

\* datetime.fromtimestamp(timestamp / 1000.0), lines 164, 205 and 211, raises
\* when the date is past the year 9999: from 253402300800000 ms on (for UTC;
\* a local zone moves the limit by less than a day)
DATETIME_END == <<0, 0, 230, 119, 210, 31, 220, 0>>

DatetimeRaises(timestamp) == ~Less(timestamp, DATETIME_END)

----------------------------------------------------------------------------
(* The wire format *)

\* Faulty variant: the y and z fields read from each other's offsets
UnpackSensorSwapped(data) ==
    <<Reverse(SubSeq(data, 1, 8)), Reverse(SubSeq(data, 9, 12)),
      Reverse(SubSeq(data, 17, 20)), Reverse(SubSeq(data, 13, 16))>>

\* struct.unpack('<Qfff', data)
UnpackSensor(data) ==
    <<Reverse(SubSeq(data, 1, 8)), Reverse(SubSeq(data, 9, 12)),
      Reverse(SubSeq(data, 13, 16)), Reverse(SubSeq(data, 17, 20))>>

\* struct.unpack('<Qff', data)
UnpackIntensity(data) ==
    <<Reverse(SubSeq(data, 1, 8)), Reverse(SubSeq(data, 9, 12)),
      Reverse(SubSeq(data, 13, 16))>>

\* What the device puts on the wire for a piece: a frame, or one byte of noise
Encode(p) ==
    IF p[1] = "sensor"
    THEN <<TAG_SENSOR>> \o Reverse(p[2]) \o Reverse(p[3]) \o Reverse(p[4]) \o Reverse(p[5])
    ELSE IF p[1] = "intensity"
    THEN <<TAG_INTENSITY>> \o Reverse(p[2]) \o Reverse(p[3]) \o Reverse(p[4])
    ELSE <<p[2]>>

RECURSIVE EncodeAll(_)
EncodeAll(ps) == IF ps = <<>> THEN <<>> ELSE Encode(Head(ps)) \o EncodeAll(Tail(ps))

IsFrame(p) == p[1] \in {"sensor", "intensity"}

----------------------------------------------------------------------------
(* ser.read(n): what one call can do with the bytes on the wire.  It returns *)
(* the bytes that arrive before the timeout, at most n of them, or raises   *)
(* (the port has failed) and takes nothing.                                 *)

ReadOutcomes(buf, n) ==
    {[fail |-> FALSE, got |-> k] : k \in 0..Min(n, Len(buf))}
    \cup {[fail |-> TRUE, got |-> 0]}

FullRead(buf, n) == [fail |-> FALSE, got |-> Min(n, Len(buf))]

Drop(buf, k) == SubSeq(buf, k + 1, Len(buf))

\* Faulty variant: the sensor body is read as a u64 and four floats
BodyLenOverlong(tag) ==
    IF tag = TAG_SENSOR THEN SENSOR_BODY + 4
    ELSE IF tag = TAG_INTENSITY THEN INTENSITY_BODY
    ELSE 0

\* the sizes of ser.read(20), line 47, and ser.read(16), line 55
BodyLen(tag) ==
    IF tag = TAG_SENSOR THEN SENSOR_BODY
    ELSE IF tag = TAG_INTENSITY THEN INTENSITY_BODY
    ELSE 0

----------------------------------------------------------------------------
(* parse_serial_data: one call, given what its reads do (rt: the tag read,  *)
(* rb: the body read).  The value is the call's effect.                     *)

\* the except clause, lines 65-70
ParseExcept(cnt, buf) ==
    LET n == cnt.error + 1
    IN  [result |-> None,
         packet_count |-> [cnt EXCEPT !.error = n],
         wire |-> buf,
         diag |-> (n % DIAG_EVERY = 0),
         outcome |-> "iofail"]

\* Faulty variant: an unknown tag is skipped without being counted
ParseUnknownSilent(cnt, buf) ==
    [result |-> None, packet_count |-> cnt, wire |-> buf,
     diag |-> FALSE, outcome |-> "unknown"]

\* Faulty variant: an unknown tag is returned to the caller as an error value
ParseUnknownSignalled(cnt, buf) ==
    [result |-> <<"error", "UnknownTag">>,
     packet_count |-> [cnt EXCEPT !.error = cnt.error + 1],
     wire |-> buf,
     diag |-> FALSE,
     outcome |-> "unknown"]

\* Faulty variant: an unknown tag is counted by its branch and again as a failure
ParseUnknownCountedTwice(cnt, buf) ==
    [result |-> None,
     packet_count |-> [cnt EXCEPT !.error = cnt.error + 2],
     wire |-> buf,
     diag |-> FALSE,
     outcome |-> "unknown"]

\* the else branch, lines 60-63
ParseUnknown(cnt, buf) ==
    [result |-> None,
     packet_count |-> [cnt EXCEPT !.error = cnt.error + 1],
     wire |-> buf,
     diag |-> FALSE,
     outcome |-> "unknown"]

\* Faulty variant: a short read is counted as an error
ParseBodyCountsShort(cnt, buf, tag, rb) ==
    LET rest == Drop(buf, rb.got)
        data == SubSeq(buf, 1, rb.got)
    IN  IF rb.fail THEN ParseExcept(cnt, rest)
        ELSE IF rb.got # BodyLen(tag)
        THEN [result |-> None, packet_count |-> [cnt EXCEPT !.error = cnt.error + 1],
              wire |-> rest, diag |-> FALSE, outcome |-> "short"]
        ELSE IF tag = TAG_SENSOR
        THEN [result |-> <<"sensor">> \o UnpackSensor(data),
              packet_count |-> [cnt EXCEPT !.sensor = cnt.sensor + 1],
              wire |-> rest, diag |-> FALSE, outcome |-> "sensor"]
        ELSE [result |-> <<"intensity">> \o UnpackIntensity(data),
              packet_count |-> [cnt EXCEPT !.intensity = cnt.intensity + 1],
              wire |-> rest, diag |-> FALSE, outcome |-> "intensity"]

\* Faulty variant: the frame is counted before its body is read
ParseBodyCountsFirst(cnt, buf, tag, rb) ==
    LET rest == Drop(buf, rb.got)
        data == SubSeq(buf, 1, rb.got)
        counted == IF tag = TAG_SENSOR
                   THEN [cnt EXCEPT !.sensor = cnt.sensor + 1]
                   ELSE [cnt EXCEPT !.intensity = cnt.intensity + 1]
    IN  IF rb.fail THEN ParseExcept(counted, rest)
        ELSE IF rb.got # BodyLen(tag)
        THEN [result |-> None, packet_count |-> cnt, wire |-> rest,
              diag |-> FALSE, outcome |-> "short"]
        ELSE IF tag = TAG_SENSOR
        THEN [result |-> <<"sensor">> \o UnpackSensor(data),
              packet_count |-> counted,
              wire |-> rest, diag |-> FALSE, outcome |-> "sensor"]
        ELSE [result |-> <<"intensity">> \o UnpackIntensity(data),
              packet_count |-> counted,
              wire |-> rest, diag |-> FALSE, outcome |-> "intensity"]

\* Faulty variant: the intensity branch returns its frame without counting it
ParseBodyUncounted(cnt, buf, tag, rb) ==
    LET rest == Drop(buf, rb.got)
        data == SubSeq(buf, 1, rb.got)
    IN  IF rb.fail THEN ParseExcept(cnt, rest)
        ELSE IF rb.got # BodyLen(tag)
        THEN [result |-> None, packet_count |-> cnt, wire |-> rest,
              diag |-> FALSE, outcome |-> "short"]
        ELSE IF tag = TAG_SENSOR
        THEN [result |-> <<"sensor">> \o UnpackSensor(data),
              packet_count |-> [cnt EXCEPT !.sensor = cnt.sensor + 1],
              wire |-> rest, diag |-> FALSE, outcome |-> "sensor"]
        ELSE [result |-> <<"intensity">> \o UnpackIntensity(data),
              packet_count |-> cnt,
              wire |-> rest, diag |-> FALSE, outcome |-> "intensity"]

\* Faulty variant: a body that holds a tag byte is taken for a lost frame, and
\* the decoder realigns on the byte after the tag
ParseBodyLooksAhead(cnt, buf, tag, rb) ==
    LET rest == Drop(buf, rb.got)
        data == SubSeq(buf, 1, rb.got)
    IN  IF rb.fail THEN ParseExcept(cnt, rest)
        ELSE IF rb.got # BodyLen(tag)
        THEN [result |-> None, packet_count |-> cnt, wire |-> rest,
              diag |-> FALSE, outcome |-> "short"]
        ELSE IF \E j \in 1..Len(data) : data[j] \in {TAG_SENSOR, TAG_INTENSITY}
        THEN [result |-> None, packet_count |-> [cnt EXCEPT !.error = cnt.error + 1],
              wire |-> buf, diag |-> FALSE, outcome |-> "unknown"]
        ELSE IF tag = TAG_SENSOR
        THEN [result |-> <<"sensor">> \o UnpackSensor(data),
              packet_count |-> [cnt EXCEPT !.sensor = cnt.sensor + 1],
              wire |-> rest, diag |-> FALSE, outcome |-> "sensor"]
        ELSE [result |-> <<"intensity">> \o UnpackIntensity(data),
              packet_count |-> [cnt EXCEPT !.intensity = cnt.intensity + 1],
              wire |-> rest, diag |-> FALSE, outcome |-> "intensity"]

\* the two frame branches, lines 45-59
ParseBody(cnt, buf, tag, rb) ==
    LET rest == Drop(buf, rb.got)
        data == SubSeq(buf, 1, rb.got)
    IN  IF rb.fail THEN ParseExcept(cnt, rest)
        ELSE IF rb.got # BodyLen(tag)
        THEN [result |-> None, packet_count |-> cnt, wire |-> rest,
              diag |-> FALSE, outcome |-> "short"]
        ELSE IF tag = TAG_SENSOR
        THEN [result |-> <<"sensor">> \o UnpackSensor(data),
              packet_count |-> [cnt EXCEPT !.sensor = cnt.sensor + 1],
              wire |-> rest, diag |-> FALSE, outcome |-> "sensor"]
        ELSE [result |-> <<"intensity">> \o UnpackIntensity(data),
              packet_count |-> [cnt EXCEPT !.intensity = cnt.intensity + 1],
              wire |-> rest, diag |-> FALSE, outcome |-> "intensity"]

\* Faulty variant: a call that finds no tag byte is counted as an error
ParseSerialDataCountsIdle(cnt, buf, rt, rb) ==
    IF rt.fail THEN ParseExcept(cnt, Drop(buf, rt.got))
    ELSE IF rt.got # 1
    THEN [result |-> None, packet_count |-> [cnt EXCEPT !.error = cnt.error + 1],
          wire |-> buf, diag |-> FALSE, outcome |-> "nodata"]
    ELSE LET header_byte == buf[1]
         IN  IF header_byte \in {TAG_SENSOR, TAG_INTENSITY}
             THEN ParseBody(cnt, Tail(buf), header_byte, rb)
             ELSE ParseUnknown(cnt, Tail(buf))

\* parse_serial_data, lines 36-70
ParseSerialData(cnt, buf, rt, rb) ==
    IF rt.fail THEN ParseExcept(cnt, Drop(buf, rt.got))
    ELSE IF rt.got # 1
    THEN [result |-> None, packet_count |-> cnt, wire |-> buf,
          diag |-> FALSE, outcome |-> "nodata"]
    ELSE LET header_byte == buf[1]
         IN  IF header_byte \in {TAG_SENSOR, TAG_INTENSITY}
             THEN ParseBody(cnt, Tail(buf), header_byte, rb)
             ELSE ParseUnknown(cnt, Tail(buf))

----------------------------------------------------------------------------
(* collections.deque(maxlen=n).append: a full deque drops its oldest element *)

\* Faulty variant: a full deque refuses the new element instead of dropping its oldest
DequeAppendKeepsOld(d, v, maxlen) ==
    IF Len(d) >= maxlen THEN d ELSE Append(d, v)

DequeAppend(d, v, maxlen) ==
    IF Len(d) >= maxlen THEN Append(Tail(d), v) ELSE Append(d, v)

\* Faulty variant: the reference follows the smallest non-zero timestamp seen
LatchFirstSmallest(first, timestamp) ==
    IF ~IsZero(timestamp) /\ (first = None \/ Less(timestamp, first))
    THEN timestamp ELSE first

\* lines 141-142 and 154-155
LatchFirst(first, timestamp) ==
    IF first = None /\ ~IsZero(timestamp) THEN timestamp ELSE first

\* Faulty variant: a timestamp of 0 (no time reference yet) is not recorded
PushSensorSkipsUnsynced(r) ==
    /\ first_timestamp' = LatchFirst(first_timestamp, r[2])
    /\ x_data' = DequeAppend(x_data, r[3], MAX_SAMPLES)
    /\ y_data' = DequeAppend(y_data, r[4], MAX_SAMPLES)
    /\ z_data' = DequeAppend(z_data, r[5], MAX_SAMPLES)
    /\ time_data' = DequeAppend(time_data, now, MAX_SAMPLES)
    /\ timestamp_data' = IF IsZero(r[2]) THEN timestamp_data
                         ELSE DequeAppend(timestamp_data, r[2], MAX_SAMPLES)
    /\ UNCHANGED intensityBufs

\* update_plot, lines 137-148
PushSensor(r) ==
    /\ first_timestamp' = LatchFirst(first_timestamp, r[2])
    /\ x_data' = DequeAppend(x_data, r[3], MAX_SAMPLES)
    /\ y_data' = DequeAppend(y_data, r[4], MAX_SAMPLES)
    /\ z_data' = DequeAppend(z_data, r[5], MAX_SAMPLES)
    /\ time_data' = DequeAppend(time_data, now, MAX_SAMPLES)
    /\ timestamp_data' = DequeAppend(timestamp_data, r[2], MAX_SAMPLES)
    /\ UNCHANGED intensityBufs

\* Faulty variant: an intensity frame without a time reference is not pushed
PushIntensityDropsUnsynced(r) ==
    IF IsZero(r[2])
    THEN UNCHANGED <<buffers, first_timestamp>>
    ELSE /\ first_timestamp' = LatchFirst(first_timestamp, r[2])
         /\ intensity_history' = DequeAppend(intensity_history, r[3], INTENSITY_SAMPLES)
         /\ a_history' = DequeAppend(a_history, r[4], INTENSITY_SAMPLES)
         /\ intensity_time' = DequeAppend(intensity_time, now, INTENSITY_SAMPLES)
         /\ intensity_timestamp' = DequeAppend(intensity_timestamp, r[2], INTENSITY_SAMPLES)
         /\ UNCHANGED sensorBufs

\* update_plot, lines 150-160
PushIntensity(r) ==
    /\ first_timestamp' = LatchFirst(first_timestamp, r[2])
    /\ intensity_history' = DequeAppend(intensity_history, r[3], INTENSITY_SAMPLES)
    /\ a_history' = DequeAppend(a_history, r[4], INTENSITY_SAMPLES)
    /\ intensity_time' = DequeAppend(intensity_time, now, INTENSITY_SAMPLES)
    /\ intensity_timestamp' = DequeAppend(intensity_timestamp, r[2], INTENSITY_SAMPLES)
    /\ UNCHANGED sensorBufs

\* Faulty variant: a call that returns None ends the poll (break for continue)
LoopBreaksOnNone(k, res) ==
    IF res = None THEN 0 ELSE (k + 1) % READS_PER_POLL

\* "for _ in range(10)", and the continue of line 133: the loop goes on to its
\* next pass whatever the call returned; after the tenth the poll is over
LoopNext(k, res) == (k + 1) % READS_PER_POLL

\* lines 163-164: the intensity branch turns a non-zero timestamp into a
\* date after its pushes, and update_plot raises if there is no such date
PlotRaises(res) ==
    /\ res # None
    /\ res[1] = "intensity"
    /\ ~IsZero(res[2])
    /\ DatetimeRaises(res[2])

\* One pass of the loop of update_plot (lines 130-169): a decode call whose
\* reads do rt and rb, and the push of what it returned.  If the pass raises,
\* the poll is over and the exception is in the hands of the GUI backend.
Step(rt, rb) ==
    LET r == ParseSerialData(packet_count, wire, rt, rb)
    IN  /\ phase = "running"
        /\ packet_count' = r.packet_count
        /\ wire' = r.wire
        /\ result' = r.result
        /\ printed' = IF r.diag THEN Append(printed, r.packet_count.error) ELSE printed
        /\ IF r.result = None
           THEN UNCHANGED <<buffers, first_timestamp>>
           ELSE IF r.result[1] = "sensor" THEN PushSensor(r.result)
           ELSE IF r.result[1] = "intensity" THEN PushIntensity(r.result)
           ELSE UNCHANGED <<buffers, first_timestamp>>
        /\ i' = IF PlotRaises(r.result) THEN 0 ELSE LoopNext(i, r.result)
        /\ phase' = IF PlotRaises(r.result) THEN "raised" ELSE phase
        /\ outcome' = r.outcome
        /\ calls' = calls + 1
        /\ noData' = noData + (IF r.outcome = "nodata" THEN 1 ELSE 0)
        /\ decoded' = IF r.result = None THEN decoded ELSE Append(decoded, r.result)
        /\ decodedAt' = IF r.result = None THEN decodedAt ELSE Append(decodedAt, now)
        /\ shortReads' = shortReads + (IF r.outcome = "short" THEN 1 ELSE 0)
        /\ ioFailures' = ioFailures + (IF r.outcome = "iofail" THEN 1 ELSE 0)
        /\ diagAt' = IF r.diag THEN Append(diagAt, ioFailures + 1) ELSE diagAt
        /\ UNCHANGED <<now, report, fed, sent, broken>>

\* The device writes pieces to the serial line
DeviceSend(ps) ==
    /\ phase = "running"
    /\ wire' = wire \o EncodeAll(ps)
    /\ sent' = sent + 1
    /\ UNCHANGED <<packet_count, buffers, first_timestamp, now, i, phase, result,
                   printed, report, fed, outcome, calls, noData, decoded, decodedAt,
                   shortReads, ioFailures, diagAt, broken>>

\* print_statistics, lines 188-221: what it prints, and whether it raises
\* at line 205 or 211 (what it printed before is printed)
Statistics ==
    LET elapsed == now
        hasFirst == first_timestamp # None /\ ~IsZero(first_timestamp)
        latest == IF Len(timestamp_data) > 0
                  THEN timestamp_data[Len(timestamp_data)] ELSE None
        firstRaises == hasFirst /\ DatetimeRaises(first_timestamp)
        hasLatest == hasFirst /\ ~firstRaises /\ latest # None /\ ~IsZero(latest)
        latestRaises == hasLatest /\ DatetimeRaises(latest)
    IN  [elapsed |-> elapsed,
         counts |-> IF elapsed > 0
                    THEN <<packet_count.sensor, packet_count.intensity, packet_count.error>>
                    ELSE None,
         rates |-> IF elapsed > 0
                   THEN <<[num |-> packet_count.sensor, den |-> elapsed],
                          [num |-> packet_count.intensity, den |-> elapsed]>>
                   ELSE None,
         first |-> IF hasFirst /\ ~firstRaises THEN first_timestamp ELSE None,
         latest |-> IF hasLatest /\ ~latestRaises THEN latest ELSE None,
         span |-> IF hasLatest /\ ~latestRaises
                  THEN Minus(latest, first_timestamp) ELSE None,
         raised |-> firstRaises \/ latestRaises]

\* plt.show() returns (the window is closed) or KeyboardInterrupt is raised
Interrupt ==
    /\ phase \in {"running", "raised"}
    /\ phase' = "finally"
    /\ UNCHANGED <<wire, packet_count, buffers, first_timestamp, now, i, result,
                   printed, report, fed, sent, outcome, calls, noData, decoded,
                   decodedAt, shortReads, ioFailures, diagAt, broken>>

\* main, line 286; if print_statistics raises, the exception leaves the
\* finally block and main: line 287 is not run
PrintStatistics ==
    /\ phase = "finally"
    /\ report' = Statistics
    /\ phase' = IF Statistics.raised THEN "crashed" ELSE "reported"
    /\ UNCHANGED <<wire, packet_count, buffers, first_timestamp, now, i, result,
                   printed, fed, sent, outcome, calls, noData, decoded,
                   decodedAt, shortReads, ioFailures, diagAt, broken>>

\* main, line 287
CloseSerial ==
    /\ phase = "reported"
    /\ phase' = "closed"
    /\ UNCHANGED <<wire, packet_count, buffers, first_timestamp, now, i, result,
                   printed, report, fed, sent, outcome, calls, noData, decoded,
                   decodedAt, shortReads, ioFailures, diagAt, broken>>

\* the wall clock advances
ClockTick(max) ==
    /\ phase = "running"
    /\ now < max
    /\ now' = now + 1
    /\ UNCHANGED <<wire, packet_count, buffers, first_timestamp, i, phase, result,
                   printed, report, fed, sent, outcome, calls, noData, decoded,
                   decodedAt, shortReads, ioFailures, diagAt, broken>>

\* the wall clock is set back (time.time() is not monotonic)
ClockStepBack(min) ==
    /\ phase = "running"
    /\ now > min
    /\ now' = now - 1
    /\ UNCHANGED <<wire, packet_count, buffers, first_timestamp, i, phase, result,
                   printed, report, fed, sent, outcome, calls, noData, decoded,
                   decodedAt, shortReads, ioFailures, diagAt, broken>>

\* the device is removed: from now on ser.read raises
Unplug ==
    /\ phase = "running"
    /\ ~broken
    /\ broken' = TRUE
    /\ UNCHANGED <<wire, packet_count, buffers, first_timestamp, now, i, phase,
                   result, printed, report, fed, sent, outcome, calls, noData,
                   decoded, decodedAt, shortReads, ioFailures, diagAt>>

\* update_plot has raised inside FuncAnimation's timer callback (line 278).
\* What follows is the GUI backend's choice: it reports the exception and
\* the timer fires again (BackendResumes), it reports it and the timer is
\* not started again, so that nothing happens until the window is closed
\* (no step but Interrupt), or it ends the process (BackendAborts).
BackendResumes ==
    /\ phase = "raised"
    /\ phase' = "running"
    /\ UNCHANGED <<wire, packet_count, buffers, first_timestamp, now, i, result,
                   printed, report, fed, sent, outcome, calls, noData, decoded,
                   decodedAt, shortReads, ioFailures, diagAt, broken>>

BackendAborts ==
    /\ phase = "raised"
    /\ phase' = "aborted"
    /\ UNCHANGED <<wire, packet_count, buffers, first_timestamp, now, i, result,
                   printed, report, fed, sent, outcome, calls, noData, decoded,
                   decodedAt, shortReads, ioFailures, diagAt, broken>>

\* lines 19-33, and the port just opened (line 237), on a line that carries
\* the pieces ps
Start(ps) ==
    /\ wire = EncodeAll(ps)
    /\ packet_count = [sensor |-> 0, intensity |-> 0, error |-> 0]
    /\ x_data = <<>> /\ y_data = <<>> /\ z_data = <<>>
    /\ time_data = <<>> /\ timestamp_data = <<>>
    /\ intensity_history = <<>> /\ a_history = <<>>
    /\ intensity_time = <<>> /\ intensity_timestamp = <<>>
    /\ first_timestamp = None
    /\ now = 0
    /\ i = 0
    /\ phase = "running"
    /\ result = None
    /\ printed = <<>>
    /\ report = None
    /\ fed = ps
    /\ sent = 0
    /\ outcome = "none"
    /\ calls = 0
    /\ noData = 0
    /\ decoded = <<>>
    /\ decodedAt = <<>>
    /\ shortReads = 0
    /\ ioFailures = 0
    /\ diagAt = <<>>
    /\ broken = FALSE

----------------------------------------------------------------------------
(* Spec: the line carries up to MaxSent pieces, each any frame or noise     *)
(* byte of Pieces; every read may time out at any byte or fail; the first   *)
(* MaxCalls decode calls are explored.                                      *)

MaxSent == 3
MaxCalls == 3
MaxIoFail == 1

SensorTs == {0, 83}
IntensityTs == {0, 1000}
JunkBytes == {88}

Pieces ==
    {<<"sensor", Digits(t, 8), Digits(1065353216, 4), Digits(1073741824, 4),
       Digits(1077936128, 4)>> : t \in SensorTs}
    \cup {<<"intensity", Digits(t, 8), Digits(1075838976, 4), Digits(1092616192, 4)>> :
          t \in IntensityTs}
    \cup {<<"junk", b>> : b \in JunkBytes}

Streams == UNION {[1..n -> Pieces] : n \in 0..MaxSent}

Init == \E ps \in Streams : Start(ps)

Decode ==
    \E rt \in ReadOutcomes(wire, 1) :
        \E rb \in ReadOutcomes(Drop(wire, 1), BodyLen(IF wire = <<>> THEN 0 ELSE wire[1])) :
            /\ calls < MaxCalls
            /\ (rt.fail \/ rb.fail) => ioFailures < MaxIoFail
            /\ Step(rt, rb)

Next == Decode

Spec == Init /\ [][Next]_vars

----------------------------------------------------------------------------
(* SpecSession: a whole session, from the open port to the closed one, with *)
(* a device that works in rounds.  In round r it writes SensorsPerRound     *)
(* sensor frames, a noise byte, intensity frame r and the tag of a frame    *)
(* that is cut off; each is read in full by a decode call, the last in a    *)
(* short read; the round ends with a read that fails and a tick of the      *)
(* clock.  The session can be interrupted at any point.                     *)

MaxRounds == 102
SensorsPerRound == 5

ScriptSensor(k) ==
    <<"sensor", Digits(IF k % 7 = 0 THEN 0 ELSE 1000 + k, 8),
      Digits(k, 4), Digits(2 * k + 1, 4), Digits(3 * k + 2, 4)>>

ScriptIntensity(r) ==
    <<"intensity", Digits(IF r % 4 = 0 THEN 0 ELSE 5000 + r, 8),
      Digits(r % 8, 4), Digits(5 * r, 4)>>

\* the last thing of a write is the tag of a sensor frame whose body never
\* comes (the device restarts): its body read times out with nothing
ScriptWrite(r) ==
    [j \in 1..SensorsPerRound |-> ScriptSensor(SensorsPerRound * (r - 1) + j)]
    \o <<<<"junk", 88>>, ScriptIntensity(r), <<"cut", TAG_SENSOR>>>>

InitSession == Start(<<>>)

SessionSend ==
    /\ wire = <<>>
    /\ sent < MaxRounds
    /\ ioFailures = sent /\ now = sent
    /\ DeviceSend(ScriptWrite(sent + 1))

SessionDecode ==
    /\ wire # <<>>
    /\ Step(FullRead(wire, 1), FullRead(Tail(wire), BodyLen(wire[1])))

SessionFail ==
    /\ wire = <<>>
    /\ ioFailures < sent
    /\ Step([fail |-> TRUE, got |-> 0], [fail |-> FALSE, got |-> 0])

SessionTick ==
    /\ wire = <<>>
    /\ ioFailures = sent
    /\ ClockTick(sent)

NextSession ==
    \/ SessionSend \/ SessionDecode \/ SessionFail \/ SessionTick
    \/ Interrupt \/ PrintStatistics \/ CloseSerial

SpecSession == InitSession /\ [][NextSession]_vars

----------------------------------------------------------------------------
(* SpecLife: the life of main from the open port to its end.  The line      *)
(* carries up to MaxLifeSent pieces, some with a timestamp that is no date; *)
(* a read returns all it asked for or times out with nothing, until the     *)
(* device is removed, and raises ever after; the clock goes forward and     *)
(* back; the first MaxLifeCalls decode calls are explored.  The timer of    *)
(* FuncAnimation keeps calling update_plot while plt.show() runs, and the   *)
(* finally block of main runs on once entered: the decode calls and the two *)
(* steps of the finally block are weakly fair.  Nothing makes the user      *)
(* close the window or the backend resume.                                  *)

MaxLifeSent == 2
MaxLifeCalls == 3
MaxSkew == 1

\* 2^56 ms: a timestamp past the year 9999
FarTs == <<1, 0, 0, 0, 0, 0, 0, 0>>

LifePieces ==
    {<<"sensor", t, Digits(1065353216, 4), Digits(1073741824, 4),
       Digits(1077936128, 4)>> : t \in {Digits(83, 8), FarTs}}
    \cup {<<"intensity", t, Digits(1075838976, 4), Digits(1092616192, 4)>> :
          t \in {Digits(1000, 8), FarTs}}
    \cup {<<"junk", b>> : b \in JunkBytes}

LifeStreams == UNION {[1..n -> LifePieces] : n \in 0..MaxLifeSent}

InitLife == \E ps \in LifeStreams : Start(ps)

LifeReads(buf, n) ==
    IF broken THEN {[fail |-> TRUE, got |-> 0]}
    ELSE {FullRead(buf, n), [fail |-> FALSE, got |-> 0]}

LifeDecode ==
    \E rt \in LifeReads(wire, 1) :
        \E rb \in LifeReads(Drop(wire, 1), BodyLen(IF wire = <<>> THEN 0 ELSE wire[1])) :
            /\ calls < MaxLifeCalls
            /\ Step(rt, rb)

LifeTick == ClockTick(MaxSkew)

LifeStepBack == ClockStepBack(0 - MaxSkew)

NextLife ==
    \/ LifeDecode \/ Unplug \/ LifeTick \/ LifeStepBack
    \/ BackendResumes \/ BackendAborts
    \/ Interrupt \/ PrintStatistics \/ CloseSerial

SpecLife ==
    /\ InitLife /\ [][NextLife]_vars
    /\ WF_vars(LifeDecode) /\ WF_vars(PrintStatistics) /\ WF_vars(CloseSerial)

----------------------------------------------------------------------------
(* Properties *)

Frames == {p \in Pieces : IsFrame(p)}
AllFrames(ps) == \A j \in 1..Len(ps) : IsFrame(ps[j])
FramesCounted == packet_count.sensor + packet_count.intensity

\* C1 as stated: whatever way the reads deliver a stream made only of
\* well-formed frames, once the stream is consumed (and no read has failed)
\* errorCount is 0 and sensorCount + intensityCount is the number of frames fed.
C1_AnyDelivery ==
    (wire = <<>> /\ AllFrames(fed) /\ ioFailures = 0)
        => (packet_count.error = 0 /\ FramesCounted = Len(fed))

\* C1, amended: the same, for the deliveries in which no body read times out
\* before the whole body has arrived (no short read); a tag read may time out.
C1_WholeBodies ==
    (wire = <<>> /\ AllFrames(fed) /\ ioFailures = 0 /\ shortReads = 0)
        => (packet_count.error = 0 /\ FramesCounted = Len(fed))

C1_Witness ==
    /\ wire = <<>> /\ Len(fed) = 3 /\ AllFrames(fed)
    /\ ioFailures = 0 /\ shortReads = 0
    /\ packet_count.sensor = 2 /\ packet_count.intensity = 1

\* the stream is frame, one unrecognized byte, frame, and every read so far
\* has returned all it asked for
OneByteBetween ==
    /\ Len(fed) = 3
    /\ IsFrame(fed[1]) /\ fed[2][1] = "junk" /\ IsFrame(fed[3])
    /\ fed[2][2] \notin {TAG_SENSOR, TAG_INTENSITY}
    /\ shortReads = 0 /\ ioFailures = 0 /\ noData = 0

\* C2: with one unrecognized byte between two well-formed frames, three
\* successive decode calls return the first frame, count exactly one error
\* (returning no frame), and return the second frame, each frame with its
\* kind and fields as sent.
C2_Resync ==
    OneByteBetween =>
        /\ calls = 1 =>
              /\ result = fed[1] /\ packet_count.error = 0
              /\ wire = Encode(fed[2]) \o Encode(fed[3])
              /\ decoded = <<fed[1]>>
        /\ calls = 2 =>
              /\ result = None /\ packet_count.error = 1
              /\ wire = Encode(fed[3])
              /\ decoded = <<fed[1]>>
        /\ calls = 3 =>
              /\ result = fed[3] /\ packet_count.error = 1
              /\ wire = <<>>
              /\ decoded = <<fed[1], fed[3]>>
              /\ FramesCounted = 2
              /\ packet_count.sensor = Cardinality({j \in {1, 3} : fed[j][1] = "sensor"})

C2_Witness ==
    /\ OneByteBetween /\ calls = 3
    /\ fed[1][1] = "sensor" /\ fed[3][1] = "intensity"
    /\ packet_count = [sensor |-> 1, intensity |-> 1, error |-> 1]

\* what has been pushed: each decoded frame with the clock reading of its push
Pushes == [j \in 1..Len(decoded) |-> Append(decoded[j], decodedAt[j])]
IsSensorPush(e) == e[1] = "sensor"
IsIntensityPush(e) == e[1] = "intensity"
pushedS == SelectSeq(Pushes, IsSensorPush)
pushedI == SelectSeq(Pushes, IsIntensityPush)

Column(h, c) == [j \in 1..Len(h) |-> h[j][c]]
LastN(q, m) == SubSeq(q, Len(q) - m + 1, Len(q))
Kept(h, c, cap) == LastN(Column(h, c), Min(Len(h), cap))

\* C3: each sensor buffer holds the last min(n, 500) of the n elements pushed
\* to it, in arrival order, and each intensity buffer the last min(n, 100);
\* no buffer is ever longer than its capacity.
C3_BoundedFifo ==
    /\ x_data = Kept(pushedS, 3, MAX_SAMPLES)
    /\ y_data = Kept(pushedS, 4, MAX_SAMPLES)
    /\ z_data = Kept(pushedS, 5, MAX_SAMPLES)
    /\ time_data = Kept(pushedS, 6, MAX_SAMPLES)
    /\ timestamp_data = Kept(pushedS, 2, MAX_SAMPLES)
    /\ intensity_history = Kept(pushedI, 3, INTENSITY_SAMPLES)
    /\ a_history = Kept(pushedI, 4, INTENSITY_SAMPLES)
    /\ intensity_time = Kept(pushedI, 5, INTENSITY_SAMPLES)
    /\ intensity_timestamp = Kept(pushedI, 2, INTENSITY_SAMPLES)
    /\ \A k \in 1..5 : Len(sensorBufs[k]) <= MAX_SAMPLES
    /\ \A k \in 1..4 : Len(intensityBufs[k]) <= INTENSITY_SAMPLES

C3_Witness ==
    /\ Len(pushedS) > MAX_SAMPLES /\ Len(x_data) = MAX_SAMPLES
    /\ x_data[1] = pushedS[Len(pushedS) - MAX_SAMPLES + 1][3]
    /\ x_data[1] # pushedS[1][3]
    /\ Len(pushedI) > INTENSITY_SAMPLES /\ Len(a_history) = INTENSITY_SAMPLES

RECURSIVE FirstNonZeroTs(_)
FirstNonZeroTs(fs) ==
    IF fs = <<>> THEN None
    ELSE IF ~IsZero(Head(fs)[2]) THEN Head(fs)[2]
    ELSE FirstNonZeroTs(Tail(fs))

\* C4: first_timestamp is unset until a decoded frame of either kind carries
\* a non-zero timestamp, and from then on it is the timestamp of the first
\* such frame, whatever the later frames carry.
C4_LatchedOnce == first_timestamp = FirstNonZeroTs(decoded)

C4_Witness ==
    /\ Len(decoded) = 3
    /\ IsZero(decoded[1][2])
    /\ decoded[2][1] = "intensity" /\ decoded[2][2] = Digits(1000, 8)
    /\ decoded[3][1] = "sensor" /\ decoded[3][2] = Digits(83, 8)
    /\ first_timestamp = Digits(1000, 8)

\* a step that is one decode call whose tag read returned a byte and in which
\* no read failed
TagRead ==
    /\ calls' = calls + 1
    /\ wire # <<>>
    /\ noData' = noData
    /\ ioFailures' = ioFailures

Taken == Len(wire) - Len(wire')

\* C5: a decode call that reads the tag of a frame and then fewer body bytes
\* than the frame has returns None, leaves the three counters, the buffers and
\* first_timestamp as they were, and has taken the tag and the partial body
\* off the line.
C5_ShortRead ==
    [][(TagRead /\ wire[1] \in {TAG_SENSOR, TAG_INTENSITY}
            /\ Taken < 1 + BodyLen(wire[1]))
        => /\ result' = None
           /\ packet_count' = packet_count
           /\ buffers' = buffers
           /\ first_timestamp' = first_timestamp
           /\ decoded' = decoded
           /\ Taken >= 1
           /\ wire' = Drop(wire, Taken)]_vars

C5_Witness ==
    /\ calls = 1 /\ outcome = "short" /\ result = None
    /\ fed # <<>> /\ fed[1][1] = "sensor"
    /\ wire = Drop(EncodeAll(fed), 11)
    /\ packet_count = [sensor |-> 0, intensity |-> 0, error |-> 0]

\* C6: a decode call that reads a tag byte other than 0x53 and 0x49 takes
\* exactly that byte, adds exactly 1 to errorCount, leaves sensorCount and
\* intensityCount alone and appends nothing to any buffer.
C6_UnknownTag ==
    [][(TagRead /\ wire[1] \notin {TAG_SENSOR, TAG_INTENSITY})
        => /\ wire' = Tail(wire)
           /\ packet_count' = [packet_count EXCEPT !.error = packet_count.error + 1]
           /\ buffers' = buffers
           /\ decoded' = decoded
           /\ first_timestamp' = first_timestamp]_vars

C6_Witness ==
    /\ calls = 1 /\ outcome = "unknown"
    /\ Len(fed) = 2 /\ fed[1][1] = "junk"
    /\ wire = Encode(fed[2])
    /\ packet_count = [sensor |-> 0, intensity |-> 0, error |-> 1]

\* C7 as stated: an unknown tag and an I/O failure give the caller a result
\* other than None, and None means no data (no tag byte, or a short read).
C7_ErrorsSignalled ==
    calls > 0 =>
        /\ outcome \in {"unknown", "iofail"} => result # None
        /\ result = None => outcome \in {"nodata", "short"}

\* C7, amended: an unknown tag and an I/O failure return None, as no data
\* and a short read do; a result other than None is a sensor or an
\* intensity frame.
C7_ErrorsReturnNone ==
    calls > 0 =>
        /\ outcome \in {"nodata", "short", "unknown", "iofail", "sensor", "intensity"}
        /\ outcome \in {"nodata", "short", "unknown", "iofail"} => result = None
        /\ outcome \in {"sensor", "intensity"} => (result # None /\ result[1] = outcome)

C7_Witness ==
    /\ outcome = "iofail" /\ result = None
    /\ ioFailures = 1 /\ packet_count.error = 2 /\ calls = 2

\* C8: a decode call in which a read fails adds exactly 1 to errorCount,
\* leaves sensorCount and intensityCount alone, returns no frame and appends
\* nothing to any buffer.
C8_IoFailure ==
    [][(calls' = calls + 1 /\ ioFailures' = ioFailures + 1)
        => /\ packet_count' = [packet_count EXCEPT !.error = packet_count.error + 1]
           /\ result' = None
           /\ buffers' = buffers
           /\ decoded' = decoded
           /\ first_timestamp' = first_timestamp]_vars

C8_Witness ==
    /\ calls = 1 /\ outcome = "iofail"
    /\ fed # <<>> /\ IsFrame(fed[1])
    /\ wire = Tail(EncodeAll(fed))
    /\ packet_count = [sensor |-> 0, intensity |-> 0, error |-> 1]

\* C9: a diagnostic is printed on the 100th, 200th, ... I/O failure and on
\* no other call, whatever unknown tags come in between.
C9_EveryHundredthIoFailure ==
    /\ Len(diagAt) = ioFailures \div DIAG_EVERY
    /\ \A j \in 1..Len(diagAt) : diagAt[j] = DIAG_EVERY * j

RECURSIVE LastNonZeroTs(_)
LastNonZeroTs(fs) ==
    IF fs = <<>> THEN None
    ELSE IF ~IsZero(fs[Len(fs)][2]) THEN fs[Len(fs)][2]
    ELSE LastNonZeroTs(SubSeq(fs, 1, Len(fs) - 1))

\* C10: once a frame has carried a non-zero timestamp, the statistics report
\* as last timestamp the timestamp of the latest frame of either kind that
\* carried a non-zero one, and as span that timestamp minus the first.
C10_LastOfEitherKind ==
    (phase \in {"reported", "closed"} /\ LastNonZeroTs(decoded) # None)
        => /\ report.latest = LastNonZeroTs(decoded)
           /\ report.span = Minus(report.latest, report.first)

\* C11: a decode call whose tag read times out with no byte returns None,
\* takes nothing off the line and changes no counter, no buffer and not
\* first_timestamp; nothing is printed.
C11_NoData ==
    [][(calls' = calls + 1 /\ noData' = noData + 1)
        => /\ result' = None
           /\ wire' = wire
           /\ packet_count' = packet_count
           /\ buffers' = buffers
           /\ first_timestamp' = first_timestamp
           /\ decoded' = decoded
           /\ printed' = printed]_vars

C11_Witness ==
    /\ calls = 2 /\ outcome = "nodata" /\ noData = 1 /\ result = None
    /\ Len(fed) = 2 /\ decoded = <<fed[1]>> /\ wire = Encode(fed[2])
    /\ packet_count = [sensor |-> 1, intensity |-> 0, error |-> 0]

CountSum == packet_count.sensor + packet_count.intensity + packet_count.error

\* C12: the three counters start at 0 and are never negative; no step, of a
\* decode call, of the clock, of the environment or of the shutdown, lowers
\* or resets one; a decode call raises at most one of them, by exactly 1,
\* and no other step changes them.
C12_CountersMonotonic ==
    /\ packet_count = [sensor |-> 0, intensity |-> 0, error |-> 0]
    /\ [](packet_count.sensor >= 0 /\ packet_count.intensity >= 0
            /\ packet_count.error >= 0)
    /\ [][/\ packet_count'.sensor >= packet_count.sensor
          /\ packet_count'.intensity >= packet_count.intensity
          /\ packet_count'.error >= packet_count.error
          /\ CountSum' - CountSum \in {0, 1}
          /\ calls' = calls => packet_count' = packet_count]_vars

C12_Witness ==
    /\ phase = "closed" /\ calls = 3 /\ broken
    /\ packet_count = [sensor |-> 1, intensity |-> 1, error |-> 1]

ErrorOutcomes == {"unknown", "short", "iofail"}

\* a step that is one decode call ending in an unknown tag, a short read or
\* an I/O failure
ErrorCall == calls' = calls + 1 /\ outcome' \in ErrorOutcomes

\* the loop of update_plot goes on to its next pass in a running session
LoopGoesOn == phase' = "running" /\ i' = (i + 1) % READS_PER_POLL

\* the frames of the stream whose tag byte has been taken off the line
Consumed == Len(EncodeAll(fed)) - Len(wire)
FrameStart(j) == Len(EncodeAll(SubSeq(fed, 1, j - 1)))
Entered == {j \in 1..Len(fed) : IsFrame(fed[j]) /\ FrameStart(j) < Consumed}

\* the decode calls that returned a frame of the stream
Genuine == {k \in 1..Len(decoded) : \E j \in 1..Len(fed) : decoded[k] = fed[j]}

\* C13 as stated: after a decode call that ends in an unknown tag, a short
\* read or an I/O failure the loop goes on in a running session, and the
\* well-formed frames that come later in the stream are still decoded: every
\* frame of the stream the reader has come to has been returned by a decode
\* call, but for the one frame each short read or I/O failure may have hit.
C13_LaterFramesDecoded ==
    /\ [][ErrorCall => LoopGoesOn]_vars
    /\ [](Cardinality(Entered) <= Cardinality(Genuine) + shortReads + ioFailures)

\* the frame whose bytes are at the head of the line, if there is one
HeadFrame == {f \in Frames : Len(wire) >= Len(Encode(f))
                              /\ SubSeq(wire, 1, Len(Encode(f))) = Encode(f)}

\* C13, amended: after such a call the loop goes on in a running session,
\* and the decoder has kept nothing of the error: the next call in which the
\* reads return all they ask for decodes the frame that starts where the
\* failed call stopped reading, if a well-formed frame starts there.
C13_LoopGoesOn ==
    /\ [][ErrorCall => LoopGoesOn]_vars
    /\ [][(TagRead /\ outcome \in ErrorOutcomes /\ HeadFrame # {}
            /\ shortReads' = shortReads)
          => /\ result' \in HeadFrame
             /\ decoded' = Append(decoded, result')
             /\ FramesCounted' = FramesCounted + 1
             /\ packet_count'.error = packet_count.error]_vars

C13_Witness ==
    /\ calls = 3 /\ i = 3 /\ phase = "running"
    /\ Len(fed) = 2 /\ fed[1][1] = "junk" /\ wire = <<>>
    /\ ioFailures = 1 /\ packet_count.error = 2
    /\ decoded = <<fed[2]>> /\ result = fed[2]

C15_ShutdownOrder ==
    /\ [][phase \notin {"running", "raised"} => (calls' = calls /\ wire' = wire)]_vars
    /\ [][(phase # "closed" /\ phase' = "closed")
            => (phase = "reported" /\ report # None)]_vars
    /\ [][phase = "closed" => phase' = "closed"]_vars
    /\ (phase = "finally") ~> (phase = "closed")

ZeroRate == [num |-> 0, den |-> 1]

\* C16: the statistics printed give, when the elapsed time is not positive,
\* both rates as 0 together with errorCount, and otherwise the rates
\* sensorCount / elapsed and intensityCount / elapsed.
C16_RatesZero ==
    phase \in {"reported", "crashed", "closed"} =>
        IF report.elapsed <= 0
        THEN /\ report.rates = <<ZeroRate, ZeroRate>>
             /\ report.counts # None
             /\ report.counts[3] = packet_count.error
        ELSE /\ report.rates = <<[num |-> packet_count.sensor, den |-> report.elapsed],
                                 [num |-> packet_count.intensity, den |-> report.elapsed]>>
             /\ report.counts # None
             /\ report.counts[3] = packet_count.error

\* the decoded sensor frames a row of the sensor buffers can come from:
\* row j of the five deques is (timestamp, x, y, z) of one pushed frame and
\* the clock reading of its push
SensorRow(j) == <<"sensor", timestamp_data[j], x_data[j], y_data[j], z_data[j],
                  time_data[j]>>
IntensityRow(j) == <<"intensity", intensity_timestamp[j], intensity_history[j],
                     a_history[j], intensity_time[j]>>

\* C17: the five sensor buffers have one length and row j of them comes from
\* one decoded sensor frame; the same for the four intensity buffers.
C17_IndexAligned ==
    LET ps == pushedS
        pi == pushedI
    IN  /\ \A k \in 1..5 : Len(sensorBufs[k]) = Len(x_data)
        /\ \A k \in 1..4 : Len(intensityBufs[k]) = Len(intensity_history)
        /\ \A j \in 1..Len(x_data) : \E k \in 1..Len(ps) : SensorRow(j) = ps[k]
        /\ \A j \in 1..Len(intensity_history) :
               \E k \in 1..Len(pi) : IntensityRow(j) = pi[k]

C17_Witness ==
    /\ packet_count.sensor = MAX_SAMPLES + 3
    /\ Len(time_data) = MAX_SAMPLES
    /\ SensorRow(MAX_SAMPLES) = Append(ScriptSensor(MAX_SAMPLES + 3), 100)
    /\ SensorRow(1) = Append(ScriptSensor(4), 0)
    /\ Len(intensity_time) = INTENSITY_SAMPLES

\* C19: at every poll boundary each sensor buffer holds min(sensorCount, 500)
\* elements and each intensity buffer min(intensityCount, 100): every frame
\* counted has been pushed once, whatever unknown tags, short reads and
\* failing reads came in between.
C19_CountedPushedOnce ==
    i = 0 =>
        /\ \A k \in 1..5 : Len(sensorBufs[k]) = Min(packet_count.sensor, MAX_SAMPLES)
        /\ \A k \in 1..4 :
               Len(intensityBufs[k]) = Min(packet_count.intensity, INTENSITY_SAMPLES)
        /\ packet_count.sensor = Len(pushedS)
        /\ packet_count.intensity = Len(pushedI)

C19_Witness ==
    /\ i = 0 /\ calls > 0
    /\ packet_count.sensor > MAX_SAMPLES /\ Len(x_data) = MAX_SAMPLES
    /\ packet_count.intensity > INTENSITY_SAMPLES
    /\ Len(intensity_history) = INTENSITY_SAMPLES
    /\ shortReads > 0 /\ ioFailures > 0 /\ packet_count.error > ioFailures

\* the number in bytes lo..hi of the line, least significant byte first
Field(lo, hi) == Reverse(SubSeq(wire, lo, hi))

\* C18: a decode call that reads the tag 0x53 (0x49) and whose body read is
\* not short, so that 20 (16) bytes follow the tag, whatever they are, takes
\* exactly these 21 (17) bytes, returns the sensor
\* (intensity) frame whose fields are these bytes, adds 1 to sensorCount
\* (intensityCount) and to nothing else, and leaves the line at the byte
\* after the body.
C18_NoLookAhead ==
    [][(TagRead /\ wire[1] \in {TAG_SENSOR, TAG_INTENSITY}
            /\ shortReads' = shortReads)
        => IF wire[1] = TAG_SENSOR
           THEN /\ wire' = Drop(wire, 1 + SENSOR_BODY)
                /\ result' = <<"sensor", Field(2, 9), Field(10, 13), Field(14, 17),
                                Field(18, 21)>>
                /\ packet_count' = [packet_count EXCEPT !.sensor = packet_count.sensor + 1]
                /\ decoded' = Append(decoded, result')
           ELSE /\ wire' = Drop(wire, 1 + INTENSITY_BODY)
                /\ result' = <<"intensity", Field(2, 9), Field(10, 13), Field(14, 17)>>
                /\ packet_count' =
                       [packet_count EXCEPT !.intensity = packet_count.intensity + 1]
                /\ decoded' = Append(decoded, result')]_vars

\* the body of the first frame is dropped by a short read; its first byte,
\* 0x53, is then read as a tag, and what follows as a body, which ends with
\* the tag 0x49 of the next frame
C18_Witness ==
    /\ calls = 2 /\ shortReads = 1 /\ outcome = "sensor"
    /\ Len(fed) = 2 /\ fed[1][1] = "sensor" /\ fed[2][1] = "intensity"
    /\ result = <<"sensor", Digits(0, 8), <<0, 63, 128, 0>>, <<0, 64, 0, 0>>,
                  <<TAG_INTENSITY, 64, 64, 0>>>>
    /\ wire = Tail(Encode(fed[2]))
    /\ packet_count = [sensor |-> 1, intensity |-> 0, error |-> 0]

\* the decode calls that found a tag byte and met no failing read
ReadingCalls == calls - noData - ioFailures

\* C20: a decode call that finds a byte and meets no failing read takes at
\* least 1 and at most 21 bytes off the line, so that the line is drained
\* after at most as many such calls as it had bytes; a call on the drained
\* line in which no read fails returns None, takes nothing and changes no
\* counter and no buffer.
C20_Progress ==
    /\ [][TagRead => (Taken >= 1 /\ Taken <= 1 + SENSOR_BODY)]_vars
    /\ [](ReadingCalls <= Consumed /\ Consumed <= Len(EncodeAll(fed)))
    /\ [][(calls' = calls + 1 /\ wire = <<>> /\ ioFailures' = ioFailures)
          => /\ result' = None
             /\ wire' = <<>>
             /\ packet_count' = packet_count
             /\ buffers' = buffers
             /\ first_timestamp' = first_timestamp]_vars

C20_Witness ==
    /\ calls = 3 /\ wire = <<>> /\ outcome = "nodata" /\ result = None
    /\ Len(fed) = 2 /\ fed[1][1] = "junk" /\ fed[2][1] = "sensor"
    /\ ReadingCalls = 2 /\ Consumed = 2 + SENSOR_BODY
    /\ packet_count = [sensor |-> 1, intensity |-> 0, error |-> 1]

====
